---- MODULE Spec2Model ----
(***************************************************************************)
(* Connection / transaction lifecycle of databases/backends/mysql.py:      *)
(* MySQLBackend (pool owner), MySQLConnection (one borrowed physical       *)
(* connection) and MySQLTransaction (BEGIN / SAVEPOINT state machine),     *)
(* above a driver that offers a pool, cursors and flat transactions.       *)
(***************************************************************************)
EXTENDS Naturals, Integers, Sequences, FiniteSets, TLC

(* ------------------------------ bounds -------------------------------- *)
\* tasks that call connect() / disconnect() on the one Backend
NTasks == 2
\* Connection wrappers produced by Backend.connection()
NConns == 1
\* savepoint names uuid4() yields over a run (caps nested start())
MaxNames == 2
\* pools the driver creates over a run: at most one per task (caps connect())
MaxPools == NTasks
\* physical connections a pool lends at most (its maxsize): one more than
\* there are Connections, so that a Connection can be handed another one
MaxSize == NConns + 1
\* Transaction objects: a root and one per savepoint name
NTx == MaxNames + 1

Tasks == 1..NTasks
Conns == 1..NConns
Txs == 1..NTx
\* the Connection a Transaction was made by (Connection.transaction())
TxConn(x) == ((x - 1) % NConns) + 1
\* primary keys of the rows the callers' INSERT statements carry
Rows == {1, 2}
PoolIds == 1..MaxPools
\* a physical connection is owned by the pool that opened it
PhysConns == PoolIds \X (1..MaxSize)
\* Python's None, as a pool reference and as a connection reference
None == 0
NoConn == <<0, 0>>

VARIABLES
    _pool,        \* MySQLBackend._pool: None or the pool create_pool returned
    pools,        \* driver side: pool id -> [status, used]
    taskpc,       \* task -> "idle" | "create_pool" | "wait_closed" (the await it is suspended at)
    taskref,      \* task -> the pool object its disconnect() is waiting on
    _connection,  \* MySQLConnection._connection: None or the borrowed physical connection
    connpc,       \* Connection -> "idle" | "acquire" | "release" (the await it is suspended at)
    connref,      \* Connection -> the pool object its pending pool call was made on
    last,         \* the most recent call: what was called, on what, and how it ended
    lastOk,       \* the most recent Backend call that completed without raising
    _is_root,     \* MySQLTransaction._is_root
    _savepoint_name, \* MySQLTransaction._savepoint_name: 0 is "", n is STARLETTE_SAVEPOINT_<n-th uuid>
    uuids,        \* how many uuid4() values have been drawn
    startedOn,    \* history: Transaction -> the physical connection its start() succeeded on
    txState,      \* Transaction -> "unstarted" | "started" | "committed" | "rolled_back" (what its calls achieved)
    session,      \* engine side: physical connection -> [in_txn, log]
    table,        \* engine side: primary keys of the rows of the table
    iter,         \* Connection -> the async generator its latest iterate() call made
    url,          \* the connection string the caller wrote, as its tokens
    _database_config, \* MySQLBackend._database_config: the DatabaseConfig
    new,          \* the DatabaseConfig the caller's latest replace() returned
    _options,     \* MySQLBackend._options: the constructor's keyword options, in order
    kwargs        \* the keyword arguments of the latest aiomysql.create_pool call

cfgvars == <<url, _database_config, new, _options, kwargs>>
poolvars == <<_pool, pools, taskpc, taskref, _connection, connpc, connref, lastOk, cfgvars>>
txvars == <<_is_root, _savepoint_name, uuids, txState, startedOn, session, table>>
vars == <<poolvars, txvars, last, iter>>

(* --------------------------- call records ----------------------------- *)
\* result: "pending" (suspended at an await), "ok", "AssertionError" (a failed
\* precondition of mysql.py), "DriverError" (raised by the driver, propagated).
\* sent: the statements handed to the driver, in order; opened / closed: the
\* cursors the call opened and the cursor.close() calls it made; value: what
\* the call returned.
\* raised: whether a driver call made by the call raised; undone: the rows
\* that left the table during the call.
Outcome(op, obj, result, note, sent, opened, closed, value, raised, undone) ==
    [op |-> op, obj |-> obj, result |-> result, note |-> note,
     sent |-> sent, opened |-> opened, closed |-> closed, value |-> value,
     raised |-> raised, undone |-> undone]

Call(op, obj, result, note) ==
    Outcome(op, obj, result, note, <<>>, 0, 0, {}, FALSE, {})

NoCall == Call("none", 0, "ok", "")

(* ------------------------- driver: the pool --------------------------- *)
NoPool == [status |-> "none", used |-> {}]

\* pools created and not yet closed
AlivePools == {q \in PoolIds : pools[q].status \in {"open", "closing"}}

\* the id create_pool gives the next pool it creates
FreshPool == Cardinality({q \in PoolIds : pools[q].status # "none"}) + 1

\* aiomysql.create_pool(...): a new open pool that lends nothing yet
create_pool(q) == [pools EXCEPT ![q] = [status |-> "open", used |-> {}]]

\* Pool.close(): no further lending; borrowed connections may still come back
PoolClose(q) ==
    [pools EXCEPT ![q].status = IF @ = "open" THEN "closing" ELSE @]

\* Pool.wait_closed() can return once every borrowed connection is back
PoolDrained(q) == pools[q].status \in {"closing", "closed"} /\ pools[q].used = {}

PoolWaitClosed(q) == [pools EXCEPT ![q].status = "closed"]

\* the connections Pool.acquire() can hand out now
PoolFree(q) ==
    IF pools[q].status = "open"
    THEN {p \in PhysConns : p[1] = q /\ p \notin pools[q].used}
    ELSE {}

PoolAcquire(q, p) == [pools EXCEPT ![q].used = @ \cup {p}]

\* Pool.release(conn) takes back a connection this pool has lent
PoolLent(q, p) == p \in pools[q].used

PoolRelease(q, p) == [pools EXCEPT ![q].used = @ \ {p}]

(* ------------------------ driver: the engine -------------------------- *)
\* a statement handed to the driver
Stmt(kind, arg) == [kind |-> kind, arg |-> arg]

\* a session outside any transaction (the pool is created with autocommit=True)
NoSession == [in_txn |-> FALSE, log |-> <<>>]

\* the log of the open transaction: rows it inserted and savepoints it set
Ins(r) == [k |-> "ins", v |-> r]
Sp(n) == [k |-> "sp", v |-> n]

Savepoints(log) == {log[i].v : i \in {j \in DOMAIN log : log[j].k = "sp"}}

Inserted(log) == {log[i].v : i \in {j \in DOMAIN log : log[j].k = "ins"}}

SpIndex(log, n) == CHOOSE i \in DOMAIN log : log[i] = Sp(n)

\* whether the engine executes the statement or raises
EngineAccepts(sess, tab, s) ==
    CASE s.kind = "INSERT" -> s.arg \notin tab
      [] s.kind \in {"RELEASE SAVEPOINT", "ROLLBACK TO SAVEPOINT"} ->
            s.arg \in Savepoints(sess.log)
      [] OTHER -> TRUE

\* the session after the statement
EngineSession(sess, s) ==
    CASE s.kind = "BEGIN" -> [in_txn |-> TRUE, log |-> <<>>]
      [] s.kind \in {"COMMIT", "ROLLBACK"} -> NoSession
      [] s.kind = "SAVEPOINT" ->
            IF sess.in_txn
            THEN [sess EXCEPT !.log = Append(SelectSeq(@, LAMBDA e : e # Sp(s.arg)), Sp(s.arg))]
            ELSE sess
      [] s.kind = "RELEASE SAVEPOINT" ->
            LET i == SpIndex(sess.log, s.arg) IN
            [sess EXCEPT !.log = SubSeq(@, 1, i - 1) \o
                                 SelectSeq(SubSeq(@, i, Len(@)), LAMBDA e : e.k = "ins")]
      [] s.kind = "ROLLBACK TO SAVEPOINT" ->
            [sess EXCEPT !.log = SubSeq(@, 1, SpIndex(@, s.arg))]
      [] s.kind = "INSERT" ->
            IF sess.in_txn THEN [sess EXCEPT !.log = Append(@, Ins(s.arg))] ELSE sess
      [] OTHER -> sess

\* the table after the statement
EngineTable(sess, tab, s) ==
    CASE s.kind = "ROLLBACK" -> tab \ Inserted(sess.log)
      [] s.kind = "ROLLBACK TO SAVEPOINT" ->
            tab \ Inserted(SubSeq(sess.log, SpIndex(sess.log, s.arg) + 1, Len(sess.log)))
      [] s.kind = "INSERT" -> tab \cup {s.arg}
      [] OTHER -> tab

\* The driver executing stmts[i..] one after another on a session; the
\* transport fails at statement number `drop` (0: never). The run stops at the
\* first statement that raises.
RECURSIVE DriverRun(_, _, _, _)
DriverRun(stmts, i, drop, st) ==
    IF i > Len(stmts) THEN st
    ELSE LET s == stmts[i]
             sent == Append(st.sent, s) IN
         IF i = drop \/ ~EngineAccepts(st.sess, st.tab, s)
         THEN [st EXCEPT !.sent = sent, !.raised = TRUE]
         ELSE DriverRun(stmts, i + 1, drop,
                        [sess |-> EngineSession(st.sess, s),
                         tab |-> EngineTable(st.sess, st.tab, s),
                         sent |-> sent, raised |-> FALSE])

Run(p, stmts, drop) ==
    DriverRun(stmts, 1, drop,
              [sess |-> session[p], tab |-> table, sent |-> <<>>, raised |-> FALSE])

(* ---------------------- the generator of iterate ---------------------- *)
\* pc: "none" (no iterate() call yet), "created" (iterate() returned the
\* generator, its body has not run), "yield" (suspended at the yield, a row
\* is with the consumer), "finished" (the body has ended).
\* cursor: "none" | "open" | "closed"; closes: the cursor.close() calls made;
\* rows: the rows the cursor has still to give; end: how the body ended;
\* abandoned: the consumer stopped asking for rows without closing it.
Generator(pc, cursor, closes, rows, end, abandoned) ==
    [pc |-> pc, cursor |-> cursor, closes |-> closes, rows |-> rows,
     end |-> end, abandoned |-> abandoned]

NoGenerator == Generator("none", "none", 0, {}, "", FALSE)

(* --------------------------- DatabaseConfig --------------------------- *)
\* A connection string is the sequence of its tokens: the delimiters
\* + : / @ ? = & and the words between them.
\*   <dialect>[+<driver>]://[<user>[:<password>]@][<host>[:<port>]]/<database>[?<key>=<value>&...]
\* A word that is absent is "", a port that is absent is None, the database
\* is the token sequence of its path, options are <<key, value>> pairs in
\* the order written.
DatabaseConfig(dialect, driver, username, password, hostname, port, database, options) ==
    [dialect |-> dialect, driver |-> driver, username |-> username,
     password |-> password, hostname |-> hostname, port |-> port,
     database |-> database, options |-> options]

NoConfig == DatabaseConfig("", "", "", "", "", None, <<>>, <<>>)

\* position of the first / last token d in s, 0 when there is none
Find(s, d) ==
    IF \E i \in DOMAIN s : s[i] = d
    THEN CHOOSE i \in DOMAIN s : s[i] = d /\ \A j \in 1..(i - 1) : s[j] # d
    ELSE 0

FindLast(s, d) ==
    IF \E i \in DOMAIN s : s[i] = d
    THEN CHOOSE i \in DOMAIN s : s[i] = d /\ \A j \in (i + 1)..Len(s) : s[j] # d
    ELSE 0

\* the one word of s, "" when s is empty
Word(s) == IF s = <<>> THEN "" ELSE s[1]

\* the ports the connection strings name, as written and as integers
PortWords == {"123", "5432"}
int(w) == CASE w = "123" -> 123 [] w = "5432" -> 5432 [] w = "1" -> 1 [] w = "2" -> 2
str(n) == CASE n = 123 -> "123" [] n = 5432 -> "5432" [] n = 1 -> "1" [] n = 2 -> "2"

\* key=value&key=value as pairs
RECURSIVE parse_qsl(_)
parse_qsl(q) ==
    IF q = <<>> THEN <<>>
    ELSE LET a == Find(q, "&")
             item == IF a = 0 THEN q ELSE SubSeq(q, 1, a - 1)
             rest == IF a = 0 THEN <<>> ELSE SubSeq(q, a + 1, Len(q))
             e == Find(item, "=") IN
         <<<<Word(SubSeq(item, 1, e - 1)), Word(SubSeq(item, e + 1, Len(item)))>>>>
             \o parse_qsl(rest)

\* DatabaseConfig.from_url
from_url(s) ==
    LET c == Find(s, ":")
        scheme == SubSeq(s, 1, c - 1)
        rest == SubSeq(s, c + 3, Len(s))
        q == Find(rest, "?")
        hier == IF q = 0 THEN rest ELSE SubSeq(rest, 1, q - 1)
        query == IF q = 0 THEN <<>> ELSE SubSeq(rest, q + 1, Len(rest))
        sl == Find(hier, "/")
        netloc == SubSeq(hier, 1, sl - 1)
        path == SubSeq(hier, sl, Len(hier))
        plus == Find(scheme, "+")
        at == FindLast(netloc, "@")
        userinfo == SubSeq(netloc, 1, at - 1)
        hostport == SubSeq(netloc, at + 1, Len(netloc))
        uc == Find(userinfo, ":")
        hc == Find(hostport, ":") IN
    DatabaseConfig(
        Word(IF plus = 0 THEN scheme ELSE SubSeq(scheme, 1, plus - 1)),
        IF plus = 0 THEN "" ELSE Word(SubSeq(scheme, plus + 1, Len(scheme))),
        Word(IF uc = 0 THEN userinfo ELSE SubSeq(userinfo, 1, uc - 1)),
        IF uc = 0 THEN "" ELSE Word(SubSeq(userinfo, uc + 1, Len(userinfo))),
        Word(IF hc = 0 THEN hostport ELSE SubSeq(hostport, 1, hc - 1)),
        IF hc = 0 THEN None ELSE int(hostport[hc + 1]),
        SubSeq(path, 2, Len(path)),
        parse_qsl(query))

\* key=value&key=value from pairs
RECURSIVE urlencode(_)
urlencode(options) ==
    IF options = <<>> THEN <<>>
    ELSE <<options[1][1], "=", options[1][2]>>
         \o (IF Len(options) = 1 THEN <<>> ELSE <<"&">> \o urlencode(Tail(options)))

\* DatabaseConfig.to_url, also str(config)
to_url(config) ==
    <<config.dialect>>
    \o (IF config.driver = "" THEN <<>> ELSE <<"+", config.driver>>)
    \o <<":", "/", "/">>
    \o (IF config.username = "" /\ config.password = "" THEN <<>>
        ELSE (IF config.username = "" THEN <<>> ELSE <<config.username>>)
             \o (IF config.password = "" THEN <<>> ELSE <<":", config.password>>)
             \o <<"@">>)
    \o (IF config.hostname = "" THEN <<>> ELSE <<config.hostname>>)
    \o (IF config.port = None THEN <<>> ELSE <<":", str(config.port)>>)
    \o <<"/">> \o config.database
    \o (IF config.options = <<>> THEN <<>> ELSE <<"?">> \o urlencode(config.options))

\* a copy that also forgets the options
replace_dropping_options(config, field, value) ==
    [config EXCEPT ![field] = value, !.options = <<>>]

\* DatabaseConfig.replace(field=value): a new DatabaseConfig
replace(config, field, value) == [config EXCEPT ![field] = value]

Placeholder == "********"

\* the display form showing the connection string as it is
repr_cleartext(config) == <<"DatabaseConfig('">> \o to_url(config) \o <<"')">>

\* DatabaseConfig.__repr__
repr(config) ==
    <<"DatabaseConfig('">>
    \o to_url(IF config.password = "" THEN config
              ELSE replace(config, "password", Placeholder))
    \o <<"')">>

\* the connection strings the callers write
Dialects == {"postgresql", "sqlite"}
Schemes == {<<d>> : d \in Dialects} \cup {<<d, "+", "asyncpg">> : d \in Dialects}
UserInfos == {<<>>, <<"username", "@">>, <<"username", ":", "password", "@">>}
HostPorts == {<<>>, <<"localhost">>} \cup {<<"localhost", ":", p>> : p \in PortWords}
Paths == {<<"/", "mydatabase">>, <<"/", "/", "absolute", "/", "path">>}
OptionWords == {<<"pool_size", "20">>, <<"ssl", "true">>}
Queries ==
    {<<>>} \cup {<<"?", o[1], "=", o[2]>> : o \in OptionWords}
    \cup {<<"?", p[1][1], "=", p[1][2], "&", p[2][1], "=", p[2][2]>> :
             p \in {q \in OptionWords \X OptionWords : q[1] # q[2]}}
Urls ==
    {x[1] \o <<":", "/", "/">> \o x[2] \o x[3] \o x[4] \o x[5] :
        x \in Schemes \X UserInfos \X HostPorts \X Paths \X Queries}

\* the values the callers replace a field with
WordFields == {"dialect", "driver", "username", "password", "hostname"}
NewWords(field) ==
    CASE field = "dialect" -> {"mysql"}
      [] field = "driver" -> {"asyncpg", "aiopg"}
      [] field = "username" -> {"admin"}
      [] field = "password" -> {"secret"}
      [] field = "hostname" -> {"otherhost"}
NewPorts == {int(p) : p \in PortWords}
NewDatabases == {<<"test_mydatabase">>, <<"/", "absolute", "/", "path_test">>}

\* the value of an option, "" when the key is not among them (dict.get)
get(options, key) ==
    IF \E i \in DOMAIN options : options[i][1] = key
    THEN options[CHOOSE i \in DOMAIN options : options[i][1] = key][2]
    ELSE ""

\* a dict with kw[key] = value
setitem(kw, key, value) ==
    [k \in DOMAIN kw \cup {key} |-> IF k = key THEN value ELSE kw[k]]

NoKwargs == [k \in {} |-> 0]

\* the connection string of the Backend when the configuration is not the
\* subject: mysql://localhost/mydatabase
DefaultUrl == <<"mysql", ":", "/", "/", "localhost", "/", "mydatabase">>

\* MySQLBackend.__init__(database_config: str) without options
InitBackend ==
    /\ url = DefaultUrl
    /\ _database_config = from_url(DefaultUrl)
    /\ new = NoConfig
    /\ _options = <<>>
    /\ kwargs = NoKwargs

\* the options a connection string may carry for the MySQL backend: each
\* size key at most once, ssl in either case
UrlOptionChoices ==
    [1..5 -> {0, 1}]

UrlOptions ==
    { (IF f[1] = 1 THEN <<<<"min_size", "1">>>> ELSE <<>>)
      \o (IF f[2] = 1 THEN <<<<"minsize", "2">>>> ELSE <<>>)
      \o (IF f[3] = 1 THEN <<<<"max_size", "2">>>> ELSE <<>>)
      \o (IF f[4] = 1 THEN <<<<"maxsize", "1">>>> ELSE <<>>)
      \o (IF f[5] = 1 THEN <<<<"ssl", ssl>>>> ELSE <<>>)
      : f \in UrlOptionChoices, ssl \in {"true", "FALSE"} }

\* the keyword options a caller may construct the Backend with: at most
\* two of them, in the order written
SizeKeys == {"min_size", "minsize", "max_size", "maxsize"}
OptionItems == (SizeKeys \X {3, 4}) \cup ({"ssl"} \X BOOLEAN)
CtorOptions ==
    {<<>>} \cup {<<a>> : a \in OptionItems}
    \cup {<<p[1], p[2]>> : p \in {q \in OptionItems \X OptionItems : q[1][1] # q[2][1]}}

\* MySQLBackend.__init__(database_config: DatabaseConfig, **options)
InitOptions ==
    /\ \E o \in UrlOptions :
         _database_config = [from_url(DefaultUrl) EXCEPT !.options = o]
    /\ url = to_url(_database_config)
    /\ new = NoConfig
    /\ _options \in CtorOptions
    /\ kwargs = NoKwargs

\* DatabaseConfig.from_url(url) of a connection string the caller wrote
InitUrl ==
    /\ url \in Urls
    /\ _database_config = from_url(url)
    /\ new = NoConfig
    /\ _options = <<>>
    /\ kwargs = NoKwargs

(* ------------------------------ Init ---------------------------------- *)
\* MySQLBackend.__init__, MySQLConnection.__init__
\* the state after construction, apart from the configuration
InitUnconnected ==
    /\ _pool = None
    /\ pools = [q \in PoolIds |-> NoPool]
    /\ taskpc = [t \in Tasks |-> "idle"]
    /\ taskref = [t \in Tasks |-> None]
    /\ _connection = [c \in Conns |-> NoConn]
    /\ connpc = [c \in Conns |-> "idle"]
    /\ connref = [c \in Conns |-> None]
    /\ last = NoCall
    /\ lastOk = "none"
    /\ _is_root = [x \in Txs |-> FALSE]
    /\ _savepoint_name = [x \in Txs |-> 0]
    /\ uuids = 0
    /\ txState = [x \in Txs |-> "unstarted"]
    /\ startedOn = [x \in Txs |-> NoConn]
    /\ session = [p \in PhysConns |-> NoSession]
    /\ table = {}
    /\ iter = [c \in Conns |-> NoGenerator]

Init == InitUnconnected /\ InitBackend

(* --------------------------- MySQLBackend ----------------------------- *)
\* connect() without its precondition
connect_assert_dropped == TRUE

\* assert self._pool is None, "DatabaseBackend is already running"
connect_assert == _pool = None

\* assert self._pool is not None, "DatabaseBackend is not running"
running_assert == _pool # None

BackendFrame ==
    UNCHANGED <<_connection, connpc, connref, txvars, iter, url, _database_config, new, _options>>

\* str.lower on the words an ssl option is written with
lower(w) ==
    CASE w \in {"TRUE", "True"} -> "true"
      [] w \in {"FALSE", "False"} -> "false"
      [] OTHER -> w

\* the url_options part of _get_connection_kwargs: the four options read
\* from the connection string, converted
url_kwargs ==
    LET url_options == _database_config.options
        min_size == get(url_options, "min_size")
        max_size == get(url_options, "max_size")
        pool_recycle == get(url_options, "pool_recycle")
        ssl == get(url_options, "ssl")
        k1 == IF min_size # "" THEN setitem(NoKwargs, "minsize", int(min_size)) ELSE NoKwargs
        k2 == IF max_size # "" THEN setitem(k1, "maxsize", int(max_size)) ELSE k1
        k3 == IF pool_recycle # "" THEN setitem(k2, "pool_recycle", int(pool_recycle)) ELSE k2 IN
    IF ssl # "" THEN setitem(k3, "ssl", lower(ssl) = "true") ELSE k3

\* constructor options stored under the key they were given
coerce_unchanged(key) == key

\* Coerce 'min_size' and 'max_size' for consistency.
coerce(key) ==
    CASE key = "min_size" -> "minsize"
      [] key = "max_size" -> "maxsize"
      [] OTHER -> key

\* for key, value in self._options.items(): kwargs[key] = value
RECURSIVE options_kwargs(_, _)
options_kwargs(kw, options) ==
    IF options = <<>> THEN kw
    ELSE options_kwargs(setitem(kw, coerce(options[1][1]), options[1][2]), Tail(options))

_get_connection_kwargs == options_kwargs(url_kwargs, _options)

\* connect(), up to the await of create_pool
connect(t) ==
    /\ taskpc[t] = "idle"
    /\ IF ~connect_assert
       THEN /\ last' = Call("connect", t, "AssertionError", "already running")
            /\ UNCHANGED <<_pool, pools, taskpc, taskref, lastOk, kwargs>>
       ELSE /\ FreshPool + Cardinality({u \in Tasks : taskpc[u] = "create_pool"}) <= MaxPools
            /\ kwargs' = _get_connection_kwargs
            /\ taskpc' = [taskpc EXCEPT ![t] = "create_pool"]
            /\ last' = Call("connect", t, "pending", "")
            /\ UNCHANGED <<_pool, pools, taskref, lastOk>>
    /\ BackendFrame

\* connect(), from the return of create_pool: self._pool = <the new pool>
connect_resume(t) ==
    /\ taskpc[t] = "create_pool"
    /\ taskpc' = [taskpc EXCEPT ![t] = "idle"]
    /\ \/ /\ pools' = create_pool(FreshPool)
          /\ _pool' = FreshPool
          /\ last' = Call("connect", t, "ok", "")
          /\ lastOk' = "connect"
       \/ /\ last' = Call("connect", t, "DriverError", "create_pool raised")
          /\ UNCHANGED <<_pool, pools, lastOk>>
    /\ UNCHANGED <<taskref, kwargs>>
    /\ BackendFrame

\* disconnect(), up to the await of wait_closed
disconnect(t) ==
    /\ taskpc[t] = "idle"
    /\ IF ~running_assert
       THEN /\ last' = Call("disconnect", t, "AssertionError", "not running")
            /\ UNCHANGED <<_pool, pools, taskpc, taskref, lastOk>>
       ELSE /\ pools' = PoolClose(_pool)
            /\ taskpc' = [taskpc EXCEPT ![t] = "wait_closed"]
            /\ taskref' = [taskref EXCEPT ![t] = _pool]
            /\ last' = Call("disconnect", t, "pending", "")
            /\ UNCHANGED <<_pool, lastOk>>
    /\ UNCHANGED kwargs
    /\ BackendFrame

\* disconnect(), from the return of wait_closed: self._pool = None
disconnect_resume(t) ==
    /\ taskpc[t] = "wait_closed"
    /\ taskpc' = [taskpc EXCEPT ![t] = "idle"]
    /\ taskref' = [taskref EXCEPT ![t] = None]
    /\ \/ /\ PoolDrained(taskref[t])
          /\ pools' = PoolWaitClosed(taskref[t])
          /\ _pool' = None
          /\ last' = Call("disconnect", t, "ok", "")
          /\ lastOk' = "disconnect"
       \/ /\ last' = Call("disconnect", t, "DriverError", "wait_closed raised")
          /\ UNCHANGED <<_pool, pools, lastOk>>
    /\ UNCHANGED kwargs
    /\ BackendFrame

(* -------------------------- MySQLConnection --------------------------- *)
\* assert self._connection is None, "Connection is already acquired"
not_acquired_assert(c) == _connection[c] = NoConn

\* assert self._connection is not None, "Connection is not acquired"
acquired_assert(c) == _connection[c] # NoConn

ConnFrame == UNCHANGED <<_pool, taskpc, taskref, lastOk, txvars, iter, cfgvars>>

\* acquire(), up to the await of Pool.acquire
acquire(c) ==
    /\ connpc[c] = "idle"
    /\ IF ~not_acquired_assert(c)
       THEN /\ last' = Call("acquire", c, "AssertionError", "already acquired")
            /\ UNCHANGED <<connpc, connref>>
       ELSE IF ~running_assert
       THEN /\ last' = Call("acquire", c, "AssertionError", "not running")
            /\ UNCHANGED <<connpc, connref>>
       ELSE /\ connpc' = [connpc EXCEPT ![c] = "acquire"]
            /\ connref' = [connref EXCEPT ![c] = _pool]
            /\ last' = Call("acquire", c, "pending", "")
    /\ UNCHANGED <<pools, _connection>>
    /\ ConnFrame

\* acquire(), from the return of Pool.acquire: self._connection = <borrowed>
acquire_resume(c) ==
    /\ connpc[c] = "acquire"
    /\ connpc' = [connpc EXCEPT ![c] = "idle"]
    /\ connref' = [connref EXCEPT ![c] = None]
    /\ \/ \E p \in PoolFree(connref[c]) :
            /\ pools' = PoolAcquire(connref[c], p)
            /\ _connection' = [_connection EXCEPT ![c] = p]
            /\ last' = Call("acquire", c, "ok", "")
       \/ /\ last' = Call("acquire", c, "DriverError", "Pool.acquire raised")
          /\ UNCHANGED <<pools, _connection>>
    /\ ConnFrame

\* release(), up to the await of Pool.release
release(c) ==
    /\ connpc[c] = "idle"
    /\ IF ~acquired_assert(c)
       THEN /\ last' = Call("release", c, "AssertionError", "not acquired")
            /\ UNCHANGED <<connpc, connref>>
       ELSE IF ~running_assert
       THEN /\ last' = Call("release", c, "AssertionError", "not running")
            /\ UNCHANGED <<connpc, connref>>
       ELSE /\ connpc' = [connpc EXCEPT ![c] = "release"]
            /\ connref' = [connref EXCEPT ![c] = _pool]
            /\ last' = Call("release", c, "pending", "")
    /\ UNCHANGED <<pools, _connection>>
    /\ ConnFrame

\* release() that leaves the binding in place
ReleasedBinding_kept(c) == _connection[c]

\* what release() stores in self._connection once Pool.release has returned
ReleasedBinding(c) == NoConn

\* release(), from the return of Pool.release: self._connection = None
release_resume(c) ==
    /\ connpc[c] = "release"
    /\ connpc' = [connpc EXCEPT ![c] = "idle"]
    /\ connref' = [connref EXCEPT ![c] = None]
    /\ IF PoolLent(connref[c], _connection[c])
       THEN /\ pools' = PoolRelease(connref[c], _connection[c])
            /\ _connection' = [_connection EXCEPT ![c] = ReleasedBinding(c)]
            /\ last' = Call("release", c, "ok", "")
       ELSE /\ last' = Call("release", c, "DriverError",
                            IF _connection[c][1] = connref[c]
                            THEN "returned twice" ELSE "not lent by this pool")
            /\ UNCHANGED <<pools, _connection>>
    /\ ConnFrame

\* acquire() cancelled at the await of Pool.acquire: CancelledError leaves
\* the call before the assignment, the pool has lent nothing
acquire_cancelled(c) ==
    /\ connpc[c] = "acquire"
    /\ connpc' = [connpc EXCEPT ![c] = "idle"]
    /\ connref' = [connref EXCEPT ![c] = None]
    /\ last' = Call("acquire", c, "CancelledError", "")
    /\ UNCHANGED <<pools, _connection>>
    /\ ConnFrame

\* release() cancelled at the await of Pool.release: CancelledError leaves
\* the call before self._connection = None.  The driver has either taken the
\* connection back already (its bookkeeping runs before the awaited wake-up
\* of waiting acquirers) or not yet.
release_cancelled(c) ==
    /\ connpc[c] = "release"
    /\ connpc' = [connpc EXCEPT ![c] = "idle"]
    /\ connref' = [connref EXCEPT ![c] = None]
    /\ \/ /\ PoolLent(connref[c], _connection[c])
          /\ pools' = PoolRelease(connref[c], _connection[c])
          /\ last' = Call("release", c, "CancelledError", "taken back")
       \/ /\ last' = Call("release", c, "CancelledError", "")
          /\ UNCHANGED pools
    /\ UNCHANGED _connection
    /\ ConnFrame

(* ----------------------- cursors and try/finally ------------------------ *)
\* a cursor closed only when the block returns
finally_close_on_return(raised) == IF raised THEN 0 ELSE 1

\* try: ... finally: await cursor.close() -- the close calls made when the
\* block ends, by return or by exception
finally_close(raised) == 1

\* an exception of the driver swallowed by the caller
propagate_swallowed(raised) == "ok"

\* no except clause anywhere: what the driver raises leaves the call
propagate(raised) == IF raised THEN "DriverError" ELSE "ok"

\* Where the transport can fail: -1 at connection.cursor(), k at the k-th
\* execute, n + 1 at the fetch after the n statements; 0 is no failure.
Drops(n, cursor, fetch) ==
    {0} \cup (1..n) \cup (IF cursor THEN {-1} ELSE {}) \cup (IF fetch THEN {n + 1} ELSE {})

\* cursor = await connection.cursor(); try: execute stmts [fetch] finally: close
Cursor(p, stmts, drop) ==
    IF drop = -1
    THEN [sess |-> session[p], tab |-> table, sent |-> <<>>, raised |-> TRUE,
          opened |-> 0, closed |-> 0]
    ELSE LET r == Run(p, stmts, drop)
             raised == r.raised \/ drop = Len(stmts) + 1 IN
         [sess |-> r.sess, tab |-> r.tab, sent |-> r.sent, raised |-> raised,
          opened |-> 1, closed |-> finally_close(raised)]

\* connection.begin() / commit() / rollback(): no cursor of the caller's
Direct(p, stmts, drop) ==
    LET r == Run(p, stmts, drop) IN
    [sess |-> r.sess, tab |-> r.tab, sent |-> r.sent, raised |-> r.raised,
     opened |-> 0, closed |-> 0]

\* the engine state after a call whose driver work was r
Applied(p, r) ==
    /\ session' = [session EXCEPT ![p] = r.sess]
    /\ table' = r.tab

Done(op, obj, note, r, value) ==
    Outcome(op, obj, propagate(r.raised), note, r.sent, r.opened, r.closed,
            IF r.raised THEN {} ELSE value, r.raised, table \ r.tab)

(* ------------------------- MySQLTransaction ---------------------------- *)
\* start() that marks every Transaction as root
start_is_root_always(is_root) == TRUE

\* self._is_root = is_root
start_is_root(is_root) == is_root

\* a generator that hands out the name it handed out before
uuid4_repeated == IF uuids = 0 THEN 1 ELSE uuids

\* id = str(uuid.uuid4()).replace("-", "_"): a name no earlier call drew
uuid4 == uuids + 1

\* what start() hands to the driver
start_statements(is_root, name) ==
    IF is_root THEN <<Stmt("BEGIN", 0)>> ELSE <<Stmt("SAVEPOINT", name)>>

\* commit() that issues nothing for a root Transaction
commit_statements_root_skipped(x) ==
    IF _is_root[x] THEN <<>> ELSE <<Stmt("RELEASE SAVEPOINT", _savepoint_name[x])>>

\* what commit() hands to the driver
commit_statements(x) ==
    IF _is_root[x] THEN <<Stmt("COMMIT", 0)>>
    ELSE <<Stmt("RELEASE SAVEPOINT", _savepoint_name[x])>>

\* rollback() that always ends the whole transaction
rollback_statements_flat(x) == <<Stmt("ROLLBACK", 0)>>

\* what rollback() hands to the driver
rollback_statements(x) ==
    IF _is_root[x] THEN <<Stmt("ROLLBACK", 0)>>
    ELSE <<Stmt("ROLLBACK TO SAVEPOINT", _savepoint_name[x])>>

\* the calls on one Connection are made one after another
ConnIdle(c) == connpc[c] = "idle"

\* Connection.transaction() makes a new Transaction for every start(): the
\* objects are started once each, in the order they were made
Startable(x) ==
    /\ txState[x] = "unstarted"
    /\ \A y \in Txs : y < x => txState[y] # "unstarted"

start(x, is_root) ==
    LET c == TxConn(x)
        p == _connection[c]
        root == start_is_root(is_root)
        name == IF root THEN _savepoint_name[x] ELSE uuid4 IN
    /\ ConnIdle(c)
    /\ Startable(x)
    /\ IF ~acquired_assert(c)
       THEN /\ last' = Call("start", x, "AssertionError", "not acquired")
            /\ UNCHANGED txvars
       ELSE /\ root \/ uuids < MaxNames
            /\ _is_root' = [_is_root EXCEPT ![x] = root]
            /\ _savepoint_name' = [_savepoint_name EXCEPT ![x] = name]
            /\ uuids' = IF root THEN uuids ELSE uuid4
            /\ \E drop \in Drops(1, ~root, FALSE) :
                 LET r == IF root THEN Direct(p, start_statements(root, name), drop)
                                  ELSE Cursor(p, start_statements(root, name), drop) IN
                 /\ Applied(p, r)
                 /\ txState' = IF r.raised THEN txState
                               ELSE [txState EXCEPT ![x] = "started"]
                 /\ startedOn' = IF r.raised THEN startedOn
                                 ELSE [startedOn EXCEPT ![x] = p]
                 /\ last' = Done("start", x, IF is_root THEN "root" ELSE "nested", r, {})
    /\ UNCHANGED <<poolvars, iter>>

commit(x) ==
    LET c == TxConn(x)
        p == _connection[c] IN
    /\ ConnIdle(c)
    /\ IF ~acquired_assert(c)
       THEN /\ last' = Call("commit", x, "AssertionError", "not acquired")
            /\ UNCHANGED txvars
       ELSE /\ \E drop \in Drops(1, ~_is_root[x], FALSE) :
                 LET r == IF _is_root[x] THEN Direct(p, commit_statements(x), drop)
                                         ELSE Cursor(p, commit_statements(x), drop) IN
                 /\ Applied(p, r)
                 /\ txState' = IF ~r.raised /\ txState[x] = "started"
                               THEN [txState EXCEPT ![x] = "committed"]
                               ELSE txState
                 /\ last' = Done("commit", x, "", r, {})
            /\ UNCHANGED <<_is_root, _savepoint_name, uuids, startedOn>>
    /\ UNCHANGED <<poolvars, iter>>

rollback(x) ==
    LET c == TxConn(x)
        p == _connection[c] IN
    /\ ConnIdle(c)
    /\ IF ~acquired_assert(c)
       THEN /\ last' = Call("rollback", x, "AssertionError", "not acquired")
            /\ UNCHANGED txvars
       ELSE /\ \E drop \in Drops(1, ~_is_root[x], FALSE) :
                 LET r == IF _is_root[x] THEN Direct(p, rollback_statements(x), drop)
                                         ELSE Cursor(p, rollback_statements(x), drop) IN
                 /\ Applied(p, r)
                 /\ txState' = IF ~r.raised /\ txState[x] = "started"
                               THEN [txState EXCEPT ![x] = "rolled_back"]
                               ELSE txState
                 /\ last' = Done("rollback", x, "", r, {})
            /\ UNCHANGED <<_is_root, _savepoint_name, uuids, startedOn>>
    /\ UNCHANGED <<poolvars, iter>>

(* --------------------- MySQLConnection: queries ------------------------ *)
QueryFrame == UNCHANGED <<poolvars, _is_root, _savepoint_name, uuids, txState, startedOn, iter>>

\* a call that returns None when it finds the Connection unbound
NotAcquired_silent(op, c) ==
    /\ last' = Call(op, c, "ok", "")
    /\ UNCHANGED <<session, table>>

\* a call that found the Connection unbound
NotAcquired(op, c) ==
    /\ last' = Call(op, c, "AssertionError", "not acquired")
    /\ UNCHANGED <<session, table>>

fetch_all(c) ==
    /\ ConnIdle(c)
    /\ IF ~acquired_assert(c) THEN NotAcquired("fetch_all", c)
       ELSE \E drop \in Drops(1, TRUE, TRUE) :
              LET r == Cursor(_connection[c], <<Stmt("SELECT", 0)>>, drop) IN
              /\ Applied(_connection[c], r)
              /\ last' = Done("fetch_all", c, "", r, r.tab)
    /\ QueryFrame

\* cursor.fetchone(): the first row, or None (here {}) when there is none
fetchone(tab) == IF tab = {} THEN {} ELSE {CHOOSE r \in tab : \A o \in tab : r <= o}

fetch_one(c) ==
    /\ ConnIdle(c)
    /\ IF ~acquired_assert(c) THEN NotAcquired("fetch_one", c)
       ELSE \E drop \in Drops(1, TRUE, TRUE) :
              LET r == Cursor(_connection[c], <<Stmt("SELECT", 0)>>, drop) IN
              /\ Applied(_connection[c], r)
              /\ last' = Done("fetch_one", c, "", r, fetchone(r.tab))
    /\ QueryFrame

\* cursor.lastrowid / cursor.rowcount after INSERT of the row with key r
lastrowid(r) == r
rowcount(r) == 1

\* execute() that always returns the row count
execute_value_rowcount(rowid, count) == count

\* if cursor.lastrowid == 0: return cursor.rowcount; return cursor.lastrowid
execute_value(rowid, count) == IF rowid = 0 THEN count ELSE rowid

execute(c, row) ==
    /\ ConnIdle(c)
    /\ IF ~acquired_assert(c) THEN NotAcquired("execute", c)
       ELSE \E drop \in Drops(1, TRUE, FALSE) :
              LET r == Cursor(_connection[c], <<Stmt("INSERT", row)>>, drop) IN
              /\ Applied(_connection[c], r)
              /\ last' = Done("execute", c, "", r,
                              {execute_value(lastrowid(row), rowcount(row))})
    /\ QueryFrame

\* cursor.rowcount after UPDATE: the rows it matched (row 0: every row)
matched(tab, row) == IF row = 0 THEN Cardinality(tab) ELSE Cardinality(tab \cap {row})

\* execute() of an UPDATE that changes no key: the cursor reports no
\* generated identifier (lastrowid 0) and the number of rows matched
execute_update(c, row) ==
    /\ ConnIdle(c)
    /\ IF ~acquired_assert(c) THEN NotAcquired("execute", c)
       ELSE \E drop \in Drops(1, TRUE, FALSE) :
              LET r == Cursor(_connection[c], <<Stmt("UPDATE", row)>>, drop) IN
              /\ Applied(_connection[c], r)
              /\ last' = Done("execute", c, "", r, {execute_value(0, matched(table, row))})
    /\ QueryFrame

\* the statement lists callers pass to execute_many
QueryLists == {<<>>} \cup {<<a>> : a \in Rows} \cup {<<a, b>> : a, b \in Rows}

\* execute_many that walks the list from its end
execute_many_statements_reversed(rows) ==
    [i \in DOMAIN rows |-> Stmt("INSERT", rows[Len(rows) + 1 - i])]

\* for single_query in queries: await cursor.execute(single_query, args)
execute_many_statements(rows) == [i \in DOMAIN rows |-> Stmt("INSERT", rows[i])]

execute_many(c, rows) ==
    /\ ConnIdle(c)
    /\ IF ~acquired_assert(c) THEN NotAcquired("execute_many", c)
       ELSE \E drop \in Drops(Len(rows), TRUE, FALSE) :
              LET r == Cursor(_connection[c], execute_many_statements(rows), drop) IN
              /\ Applied(_connection[c], r)
              /\ last' = Done("execute_many", c, "", r, {})
    /\ QueryFrame

\* the raw_connection property
raw_connection(c) ==
    /\ ConnIdle(c)
    /\ IF ~acquired_assert(c) THEN NotAcquired("raw_connection", c)
       ELSE /\ last' = Outcome("raw_connection", c, "ok", "", <<>>, 0, 0,
                               {_connection[c]}, FALSE, {})
            /\ UNCHANGED <<session, table>>
    /\ QueryFrame

(* --------------------- MySQLConnection.iterate ------------------------- *)
IterFrame == UNCHANGED <<poolvars, txvars>>

\* the body's finally clause, entered with the cursor open
finally_closed(g, end) ==
    [g EXCEPT !.pc = "finished", !.end = end, !.rows = {},
              !.closes = @ + finally_close(end # "exhausted"),
              !.cursor = IF finally_close(end # "exhausted") > 0 THEN "closed" ELSE @]

\* iterate(query): calling an async generator function runs none of its body
iterate(c) ==
    /\ ConnIdle(c)
    /\ iter[c].pc \in {"none", "finished"}
    /\ iter' = [iter EXCEPT ![c] = Generator("created", "none", 0, {}, "", FALSE)]
    /\ last' = Call("iterate", c, "ok", "")
    /\ IterFrame

\* The consumer asks for the next row: the body runs until it yields or
\* ends. From "created" that is lines 157-163: assert, compile, cursor(),
\* execute, first fetch. From "yield" it is the next fetch of `async for`.
\* how: what the awaits of this run meet.
iterate_next(c, how) ==
    LET g == iter[c] IN
    /\ ConnIdle(c)
    /\ g.pc \in {"created", "yield"}
    /\ ~g.abandoned
    /\ how \in {"ok", "cursor raises", "raises", "cancelled"}
    /\ IF g.pc = "created" /\ ~acquired_assert(c)
       THEN /\ iter' = [iter EXCEPT ![c] = [g EXCEPT !.pc = "finished", !.end = "raised"]]
            /\ last' = Call("iterate_next", c, "AssertionError", "not acquired")
       ELSE IF g.pc = "created" /\ how = "cursor raises"
       THEN /\ iter' = [iter EXCEPT ![c] = [g EXCEPT !.pc = "finished", !.end = "raised"]]
            /\ last' = Outcome("iterate_next", c, "DriverError", "", <<>>, 0, 0, {}, TRUE, {})
       ELSE LET opened == IF g.pc = "created" THEN 1 ELSE 0
                sent == IF g.pc = "created" THEN <<Stmt("SELECT", 0)>> ELSE <<>>
                rows == IF g.pc = "created" THEN table ELSE g.rows
                open == [g EXCEPT !.cursor = "open", !.rows = rows] IN
            /\ how # "cursor raises"
            /\ IF how \in {"raises", "cancelled"}
               THEN /\ iter' = [iter EXCEPT ![c] =
                                  finally_closed(open, IF how = "raises" THEN "raised" ELSE "cancelled")]
                    /\ last' = Outcome("iterate_next", c,
                                       IF how = "raises" THEN propagate(TRUE) ELSE "CancelledError",
                                       "", sent, opened, iter'[c].closes - g.closes, {},
                                       how = "raises", {})
               ELSE IF rows = {}
               THEN /\ iter' = [iter EXCEPT ![c] = finally_closed(open, "exhausted")]
                    /\ last' = Outcome("iterate_next", c, "StopAsyncIteration", "", sent,
                                       opened, iter'[c].closes - g.closes, {}, FALSE, {})
               ELSE \E row \in rows :
                    /\ \A o \in rows : row <= o
                    /\ iter' = [iter EXCEPT ![c] = [open EXCEPT !.pc = "yield", !.rows = rows \ {row}]]
                    /\ last' = Outcome("iterate_next", c, "ok", "", sent, opened, 0,
                                       {row}, FALSE, {})
    /\ IterFrame

\* The consumer leaves its `async for` (break, an exception of its own, or
\* its task cancelled while it holds a row): nothing of the generator runs.
iterate_abandon(c) ==
    /\ iter[c].pc = "yield"
    /\ ~iter[c].abandoned
    /\ iter' = [iter EXCEPT ![c].abandoned = TRUE]
    /\ last' = Call("iterate_abandon", c, "ok", "")
    /\ IterFrame

\* aclose(), called by the consumer or by the event loop's finalizer for a
\* generator no longer referenced: GeneratorExit is raised at the yield.
iterate_aclose(c) ==
    /\ ConnIdle(c)
    /\ iter[c].pc \in {"created", "yield"}
    /\ iter' = [iter EXCEPT ![c] =
                  IF iter[c].pc = "created"
                  THEN [iter[c] EXCEPT !.pc = "finished", !.end = "closed"]
                  ELSE finally_closed(iter[c], "closed")]
    /\ last' = Outcome("iterate_aclose", c, "ok", "", <<>>, 0,
                       iter'[c].closes - iter[c].closes, {}, FALSE, {})
    /\ IterFrame

(* ------------------------------ Next ---------------------------------- *)
Next ==
    \/ \E t \in Tasks : connect(t)
    \/ \E t \in Tasks : connect_resume(t)
    \/ \E t \in Tasks : disconnect(t)
    \/ \E t \in Tasks : disconnect_resume(t)
    \/ \E c \in Conns : acquire(c)
    \/ \E c \in Conns : acquire_resume(c)
    \/ \E c \in Conns : release(c)
    \/ \E c \in Conns : release_resume(c)

Spec == Init /\ [][Next]_vars

(* Callers that await each Backend call before making the next one: a     *)
(* connect() or disconnect() starts only when none is in flight.          *)
BackendIdle == \A t \in Tasks : taskpc[t] = "idle"

NextSeq ==
    \/ \E t \in Tasks : BackendIdle /\ connect(t)
    \/ \E t \in Tasks : connect_resume(t)
    \/ \E t \in Tasks : BackendIdle /\ disconnect(t)
    \/ \E t \in Tasks : disconnect_resume(t)
    \/ \E c \in Conns : acquire(c)
    \/ \E c \in Conns : acquire_resume(c)
    \/ \E c \in Conns : release(c)
    \/ \E c \in Conns : release_resume(c)

SpecSeq == Init /\ [][NextSeq]_vars

\* a configured Backend connected and disconnected, one call after another
InitConfig == InitUnconnected /\ InitOptions

NextConfig ==
    \/ \E t \in Tasks : BackendIdle /\ connect(t)
    \/ \E t \in Tasks : connect_resume(t)
    \/ \E t \in Tasks : BackendIdle /\ disconnect(t)
    \/ \E t \in Tasks : disconnect_resume(t)

\* the Backend's and the Connection's calls one after another, the
\* Connection's pool calls open to cancellation
NextCancel ==
    \/ \E t \in Tasks : BackendIdle /\ connect(t)
    \/ \E t \in Tasks : connect_resume(t)
    \/ \E t \in Tasks : BackendIdle /\ disconnect(t)
    \/ \E t \in Tasks : disconnect_resume(t)
    \/ \E c \in Conns : acquire(c)
    \/ \E c \in Conns : acquire_resume(c)
    \/ \E c \in Conns : acquire_cancelled(c)
    \/ \E c \in Conns : release(c)
    \/ \E c \in Conns : release_resume(c)
    \/ \E c \in Conns : release_cancelled(c)

SpecCancel == Init /\ [][NextCancel]_vars

SpecConfig == InitConfig /\ [][NextConfig]_vars

(* ---- the calls on a DatabaseConfig ---- *)
ConfigFrame == UNCHANGED <<_pool, pools, taskpc, taskref, _connection, connpc, connref, lastOk,
                           txvars, iter, url, _database_config, _options, kwargs>>

\* repr(u)
config_repr ==
    /\ last' = Outcome("repr", 0, "ok", "", <<>>, 0, 0, {repr(_database_config)}, FALSE, {})
    /\ UNCHANGED new
    /\ ConfigFrame

\* u.to_url(), str(u)
config_to_url ==
    /\ last' = Outcome("to_url", 0, "ok", "", <<>>, 0, 0, {to_url(_database_config)}, FALSE, {})
    /\ UNCHANGED new
    /\ ConfigFrame

\* new = u.replace(field=value)
config_replace(field, value) ==
    /\ new' = replace(_database_config, field, value)
    /\ last' = Outcome("replace", 0, "ok", field, <<>>, 0, 0, {value}, FALSE, {})
    /\ ConfigFrame

InitParsed == InitUnconnected /\ InitUrl

NextUrl ==
    \/ config_repr
    \/ config_to_url
    \/ \E f \in WordFields : \E w \in NewWords(f) : config_replace(f, w)
    \/ \E p \in NewPorts : config_replace("port", p)
    \/ \E d \in NewDatabases : config_replace("database", d)

SpecUrl == InitParsed /\ [][NextUrl]_vars

(* Transactions and queries on Connections that have been acquired from   *)
(* the pool of a Backend whose connect() has returned.                    *)
Bound(c) == <<1, c>>

InitTx ==
    /\ _pool = 1
    /\ pools = [q \in PoolIds |->
                  IF q = 1 THEN [status |-> "open", used |-> {Bound(c) : c \in Conns}]
                  ELSE NoPool]
    /\ taskpc = [t \in Tasks |-> "idle"]
    /\ taskref = [t \in Tasks |-> None]
    /\ _connection = [c \in Conns |-> Bound(c)]
    /\ connpc = [c \in Conns |-> "idle"]
    /\ connref = [c \in Conns |-> None]
    /\ last = Call("acquire", 1, "ok", "")
    /\ lastOk = "connect"
    /\ _is_root = [x \in Txs |-> FALSE]
    /\ _savepoint_name = [x \in Txs |-> 0]
    /\ uuids = 0
    /\ txState = [x \in Txs |-> "unstarted"]
    /\ startedOn = [x \in Txs |-> NoConn]
    /\ session = [p \in PhysConns |-> NoSession]
    /\ table = {}
    /\ iter = [c \in Conns |-> NoGenerator]
    /\ InitBackend

NextTx ==
    \/ \E x \in Txs, is_root \in BOOLEAN : start(x, is_root)
    \/ \E x \in Txs : commit(x)
    \/ \E x \in Txs : rollback(x)
    \/ \E c \in Conns : fetch_all(c)
    \/ \E c \in Conns, row \in Rows : execute(c, row)

SpecTx == InitTx /\ [][NextTx]_vars

(* Every operation that opens a cursor, on acquired Connections.           *)
NextQuery ==
    \/ \E x \in Txs, is_root \in BOOLEAN : start(x, is_root)
    \/ \E x \in Txs : commit(x)
    \/ \E x \in Txs : rollback(x)
    \/ \E c \in Conns : fetch_all(c)
    \/ \E c \in Conns : fetch_one(c)
    \/ \E c \in Conns, row \in Rows : execute(c, row)
    \/ \E c \in Conns, rows \in QueryLists : execute_many(c, rows)

SpecQuery == InitTx /\ [][NextQuery]_vars

(* Queries made outside any transaction: the pool hands out connections    *)
(* in autocommit mode and no Transaction is started.                       *)
NextMany ==
    \/ \E c \in Conns, rows \in QueryLists : execute_many(c, rows)
    \/ \E c \in Conns, row \in Rows : execute(c, row)
    \/ \E c \in Conns, row \in Rows \cup {0} : execute_update(c, row)
    \/ \E c \in Conns : fetch_all(c)
    \/ \E c \in Conns : fetch_one(c)
    \/ \E c \in Conns : iterate(c)
    \/ \E c \in Conns, how \in {"ok", "cursor raises", "raises", "cancelled"} :
          iterate_next(c, how)
    \/ \E c \in Conns : iterate_aclose(c)

SpecMany == InitTx /\ [][NextMany]_vars

(* The whole life of a Connection: the Backend is connected, Connections   *)
(* are acquired and released, and every operation may be called in every   *)
(* state of the binding. The caller uses one Transaction object.           *)
InitLife ==
    /\ _pool = 1
    /\ pools = [q \in PoolIds |->
                  IF q = 1 THEN [status |-> "open", used |-> {}] ELSE NoPool]
    /\ taskpc = [t \in Tasks |-> "idle"]
    /\ taskref = [t \in Tasks |-> None]
    /\ _connection = [c \in Conns |-> NoConn]
    /\ connpc = [c \in Conns |-> "idle"]
    /\ connref = [c \in Conns |-> None]
    /\ last = Call("connect", 1, "ok", "")
    /\ lastOk = "connect"
    /\ _is_root = [x \in Txs |-> FALSE]
    /\ _savepoint_name = [x \in Txs |-> 0]
    /\ uuids = 0
    /\ txState = [x \in Txs |-> "unstarted"]
    /\ startedOn = [x \in Txs |-> NoConn]
    /\ session = [p \in PhysConns |-> NoSession]
    /\ table = {}
    /\ iter = [c \in Conns |-> NoGenerator]
    /\ InitBackend

NextLife ==
    \/ \E c \in Conns : acquire(c)
    \/ \E c \in Conns : acquire_resume(c)
    \/ \E c \in Conns : release(c)
    \/ \E c \in Conns : release_resume(c)
    \/ \E is_root \in BOOLEAN : start(1, is_root)
    \/ commit(1)
    \/ rollback(1)
    \/ \E c \in Conns : fetch_all(c)
    \/ \E c \in Conns : fetch_one(c)
    \/ \E c \in Conns, row \in Rows : execute(c, row)
    \/ \E c \in Conns, rows \in QueryLists : execute_many(c, rows)
    \/ \E c \in Conns : raw_connection(c)
    \/ \E c \in Conns : iterate(c)
    \/ \E c \in Conns, how \in {"ok", "cursor raises", "raises", "cancelled"} :
          iterate_next(c, how)

SpecLife == InitLife /\ [][NextLife]_vars

(* Transactions on Connections that are released and acquired again       *)
(* between the calls.                                                      *)
NextRebind ==
    \/ \E c \in Conns : acquire(c)
    \/ \E c \in Conns : acquire_resume(c)
    \/ \E c \in Conns : release(c)
    \/ \E c \in Conns : release_resume(c)
    \/ \E x \in Txs, is_root \in BOOLEAN : start(x, is_root)
    \/ \E x \in Txs : commit(x)
    \/ \E x \in Txs : rollback(x)

SpecRebind == InitLife /\ [][NextRebind]_vars

(* iterate() on acquired Connections, next to execute() and release().    *)
NextIter ==
    \/ \E c \in Conns : iterate(c)
    \/ \E c \in Conns, how \in {"ok", "cursor raises", "raises", "cancelled"} :
          iterate_next(c, how)
    \/ \E c \in Conns : iterate_abandon(c)
    \/ \E c \in Conns : iterate_aclose(c)
    \/ \E c \in Conns, row \in Rows : execute(c, row)
    \/ \E c \in Conns : release(c)
    \/ \E c \in Conns : release_resume(c)

SpecIter == InitTx /\ [][NextIter]_vars

(* ============================== claims ================================ *)
\* a step that is the start of a call of op on obj (it raised at once, or
\* it reached its await)
Called(op, obj) ==
    /\ last' # last
    /\ last'.op = op /\ last'.obj = obj
    /\ last'.result \in {"pending", "AssertionError"}

\* a step in which a call of op ended with result
Ended(op, result) ==
    /\ last' # last
    /\ last'.op = op /\ last'.result = result

\* physical connections some pool counts as lent
Lent == UNION {pools[q].used : q \in PoolIds}

Holders(p) == {c \in Conns : _connection[c] = p}

(* ------------------------------- C1 ----------------------------------- *)
C1_Step ==
    /\ \A c \in Conns :
          /\ Called("acquire", c) /\ (_connection[c] # NoConn \/ _pool = None)
               => last'.result = "AssertionError"
          /\ Called("release", c) /\ (_connection[c] = NoConn \/ _pool = None)
               => last'.result = "AssertionError"
    /\ \A op \in {"acquire", "release"} :
          Ended(op, "AssertionError") => _connection' = _connection /\ pools' = pools

C1_State ==
    /\ \A p \in Lent : Cardinality(Holders(p)) = 1
    /\ last.note # "returned twice"

\* C1: acquire() on a bound Connection, release() on an unbound one, and
\* either call while the Backend has no pool, raise AssertionError; a call
\* that raised it changed neither any binding nor any pool's lent set; every
\* lent physical connection is the binding of exactly one Connection (no
\* Connection borrowed a second one over the first) and Pool.release is
\* never called for a connection its pool already has back.
C1_AcquireReleasePaired == [][C1_Step]_vars /\ []C1_State

\* an acquire() on a Connection that holds a lent connection was refused
C1_Witness ==
    /\ last.op = "acquire" /\ last.result = "AssertionError"
    /\ last.note = "already acquired"
    /\ _connection[last.obj] \in Lent

(* ------------------------------- C2 ----------------------------------- *)
C2_Step ==
    /\ \A t \in Tasks :
          /\ Called("connect", t) /\ _pool # None => last'.result = "AssertionError"
          /\ Called("disconnect", t) /\ _pool = None => last'.result = "AssertionError"
    /\ \A op \in {"connect", "disconnect"} :
          Ended(op, "AssertionError") \/ Ended(op, "DriverError") => _pool' = _pool
    /\ Ended("connect", "ok") =>
          _pool = None /\ _pool' # None /\ lastOk # "connect"
    /\ Ended("disconnect", "ok") =>
          _pool # None /\ _pool' = None /\ lastOk = "connect"

\* C2: when Backend calls are made one after another, connect() raises
\* AssertionError if a pool exists and disconnect() raises it if none
\* exists; a call that raised left the pool reference unchanged; a connect()
\* that returned took the Backend from no pool to a pool, a disconnect()
\* that returned took it from a pool to no pool, and the calls that
\* returned alternate, starting with connect().
C2_ConnectDisconnectAlternate == [][C2_Step]_vars

\* after a full connect/disconnect cycle a further disconnect() was refused
C2_Witness ==
    /\ lastOk = "disconnect"
    /\ last.op = "disconnect" /\ last.result = "AssertionError"
    /\ \E q \in PoolIds : pools[q].status = "closed"

(* ------------------------------- C3 ----------------------------------- *)
\* pools some reference still reaches: the Backend's, or a disconnect()
\* suspended in wait_closed
ReachablePools == {_pool} \cup {taskref[t] : t \in Tasks}

\* C3: under every interleaving of connect() and disconnect() at their
\* awaits, at most one pool is alive (created and not closed), and every
\* alive pool is still referenced.
C3_AtMostOnePoolAlive ==
    /\ Cardinality(AlivePools) <= 1
    /\ AlivePools \subseteq ReachablePools

(* --------------------- transactions: vocabulary ----------------------- *)
\* a step in which a call of op on obj was made and ended
Did(op, obj) == last' # last /\ last'.op = op /\ last'.obj = obj

\* the physical connection a Transaction's calls go to
TxPhys(x) == _connection[TxConn(x)]

\* Transactions of Connection c that were started as root and are neither
\* committed nor rolled back
ActiveRootsOf(state, root, c) ==
    {x \in Txs : TxConn(x) = c /\ state[x] = "started" /\ root[x]}

ActiveRoots(c) == ActiveRootsOf(txState, _is_root, c)

\* a Transaction started by SAVEPOINT whose savepoint the session still has
LiveNested(x) ==
    /\ txState[x] = "started" /\ ~_is_root[x]
    /\ TxPhys(x) # NoConn
    /\ session[TxPhys(x)].in_txn
    /\ _savepoint_name[x] \in Savepoints(session[TxPhys(x)].log)

\* what the log holds after savepoint n
After(log, n) == SubSeq(log, SpIndex(log, n) + 1, Len(log))

Before(log, n) == SubSeq(log, 1, SpIndex(log, n) - 1)

(* ------------------------------- C4 ----------------------------------- *)
C4_Step ==
    \A x \in Txs, op \in {"commit", "rollback"} :
        Did(op, x) /\ txState[x] # "started"
            => last'.result = "AssertionError" /\ last'.sent = <<>>

\* C4: a commit() or rollback() of a Transaction that is not started (never
\* started, or already committed or rolled back) raises AssertionError and
\* hands no statement to the driver.
C4_OutOfOrderRejected == [][C4_Step]_vars

(* ------------------------------- C5 ----------------------------------- *)
\* C5 as claimed: on every Connection at most one Transaction started as
\* root is active, whatever the calls.
C5_OneActiveRoot == \A c \in Conns : Cardinality(ActiveRoots(c)) <= 1

\* the caller starts a root while a root is active on the Connection
SecondRootStart(c) ==
    /\ ActiveRoots(c) # {}
    /\ \E x \in Txs : TxConn(x) = c /\ Did("start", x) /\ last'.note = "root"

C5_Step ==
    \A c \in Conns :
        Cardinality(ActiveRoots(c)) <= 1 /\ ~SecondRootStart(c)
            => Cardinality(ActiveRootsOf(txState', _is_root', c)) <= 1

\* C5 amended: the number of active roots of a Connection exceeds one only
\* by a start(is_root=true) made while a root is active on it; no other
\* call, and no start(is_root=false), adds an active root.
C5_OneActiveRootUnlessSecondRootStarted == [][C5_Step]_vars

\* inside the one active root a nested Transaction was started
C5_Witness ==
    /\ last.op = "start" /\ last.note = "nested" /\ last.result = "ok"
    /\ Cardinality(ActiveRoots(TxConn(last.obj))) = 1
    /\ txState[last.obj] = "started" /\ ~_is_root[last.obj]

(* ------------------------------- C6 ----------------------------------- *)
C6_Step ==
    /\ \A b \in Txs :
          LET p == TxPhys(b)
              n == _savepoint_name[b] IN
          Did("rollback", b) /\ last'.result = "ok" /\ LiveNested(b)
            /\ ActiveRoots(TxConn(b)) # {}
            => /\ table' = table \ Inserted(After(session[p].log, n))
               /\ Inserted(Before(session[p].log, n)) \subseteq table'
               /\ session'[p].in_txn
               /\ Inserted(session'[p].log) = Inserted(Before(session[p].log, n))
               /\ ActiveRootsOf(txState', _is_root', TxConn(b)) = ActiveRoots(TxConn(b))
    /\ \A a \in Txs :
          LET p == TxPhys(a) IN
          Did("rollback", a) /\ last'.result = "ok"
            /\ ActiveRoots(TxConn(a)) = {a} /\ session[p].in_txn
            => /\ table' = table \ Inserted(session[p].log)
               /\ session'[p] = NoSession

\* C6: inside an active root a, a rollback() that returns for a nested
\* Transaction b whose savepoint is live removes from the table exactly the
\* rows inserted after b's savepoint, keeps the rows the transaction inserted
\* before it, and leaves the session in its transaction with a still active;
\* a rollback() that returns for the root a removes every row inserted since
\* its BEGIN, those of nested Transactions included, and ends the
\* transaction.
C6_NestedRollbackKeepsRoot == [][C6_Step]_vars

\* a nested rollback() has removed a row while the root's earlier row stays
C6_Witness ==
    /\ last.op = "rollback" /\ last.result = "ok" /\ last.undone # {}
    /\ ~_is_root[last.obj] /\ txState[last.obj] = "rolled_back"
    /\ ActiveRoots(TxConn(last.obj)) # {}
    /\ session[TxPhys(last.obj)].in_txn
    /\ Inserted(session[TxPhys(last.obj)].log) # {}
    /\ Inserted(session[TxPhys(last.obj)].log) \subseteq table

(* ------------------------------- C7 ----------------------------------- *)
C7_Step ==
    \A t \in Txs, op \in {"commit", "rollback"} :
        LET p == TxPhys(t)
            n == _savepoint_name[t] IN
        /\ Did(op, t) /\ last'.result = "ok" /\ LiveNested(t)
             => Savepoints(After(session[p].log, n)) \cap Savepoints(session'[p].log) = {}
        /\ Did(op, t) /\ p # NoConn /\ ~_is_root[t] /\ n \notin Savepoints(session[p].log)
             => last'.result = "DriverError" /\ txState'[t] = txState[t]

\* C7: a commit() or rollback() that returns for a nested Transaction t
\* leaves none of the savepoints set after t's; and a commit() or rollback()
\* of a nested Transaction whose savepoint the session no longer has raises
\* the driver's error and leaves the Transaction as it was.
C7_LaterSavepointsInvalidated == [][C7_Step]_vars

\* u was started after t inside a root; t was committed or rolled back, and
\* u's commit() or rollback() then failed on its lost savepoint
C7_Witness ==
    /\ last.op \in {"commit", "rollback"} /\ last.result = "DriverError"
    /\ Len(last.sent) = 1
    /\ LET u == last.obj IN
       /\ txState[u] = "started" /\ ~_is_root[u]
       /\ session[TxPhys(u)].in_txn
       /\ _savepoint_name[u] \notin Savepoints(session[TxPhys(u)].log)
       /\ \E t \in Txs : /\ t < u /\ ~_is_root[t]
                         /\ _savepoint_name[t] < _savepoint_name[u]
                         /\ _savepoint_name[t] > 0
                         /\ txState[t] \in {"committed", "rolled_back"}
       /\ \E a \in Txs : a < u /\ _is_root[a] /\ txState[a] = "started"

(* ------------------------------- C8 ----------------------------------- *)
C8_Step ==
    \A a \in Txs :
        Did("commit", a) /\ last'.result = "ok" /\ _is_root[a] /\ txState[a] = "started"
            => session'[TxPhys(a)] = NoSession

\* C8: once commit() has returned for a started root Transaction, the
\* session of its physical connection holds no savepoint and no open
\* transaction.
C8_NoSavepointAfterRootCommit == [][C8_Step]_vars

\* the root's commit() returned after a nested Transaction started inside
\* it had been rolled back (which keeps its savepoint until the COMMIT)
C8_Witness ==
    /\ last.op = "commit" /\ last.result = "ok" /\ last.sent = <<Stmt("COMMIT", 0)>>
    /\ _is_root[last.obj] /\ txState[last.obj] = "committed"
    /\ \E b \in Txs : /\ b > last.obj /\ TxConn(b) = TxConn(last.obj)
                      /\ ~_is_root[b] /\ txState[b] = "rolled_back"
    /\ session[TxPhys(last.obj)] = NoSession

(* ------------------------------- C9 ----------------------------------- *)
CursorOps == {"fetch_all", "fetch_one", "execute", "execute_many",
              "start", "commit", "rollback"}

\* C9: every call of a cursor-using operation made as many cursor.close()
\* calls as it opened cursors (at most one), whether it returned or raised;
\* when the driver raised inside it the call ended with the driver's error;
\* and no statement was handed to the driver again after it raised (the
\* statement that raised is the last one sent, and a single-statement
\* operation sent at most one).
C9_CursorClosedOnEveryPath ==
    last.op \in CursorOps =>
        /\ last.closed = last.opened /\ last.opened <= 1
        /\ last.raised => last.result = "DriverError"
        /\ last.result = "ok" => ~last.raised
        /\ last.op # "execute_many" => Len(last.sent) <= 1

\* a fetch raised with the cursor open, and the cursor was closed once
C9_Witness ==
    /\ last.op = "fetch_all" /\ last.raised /\ last.result = "DriverError"
    /\ last.opened = 1 /\ last.closed = 1 /\ Len(last.sent) = 1

(* ------------------------------- C10 ---------------------------------- *)
\* C10 as claimed: no finished, failed, cancelled or abandoned iteration
\* has its cursor open.
C10_NoCursorLeftOpen ==
    \A c \in Conns :
        iter[c].pc = "finished" \/ iter[c].abandoned => iter[c].cursor # "open"

\* C10 amended: once the generator's body has ended (rows exhausted, the
\* driver raised, cancellation raised at an await of the body, or aclose())
\* the cursor it opened is closed, by exactly one close() call; an iteration
\* the consumer abandoned at a yielded row keeps its cursor open until then.
C10_CursorClosedWhenGeneratorEnds ==
    \A c \in Conns :
        /\ iter[c].pc = "finished" =>
              /\ iter[c].cursor # "open"
              /\ iter[c].closes = IF iter[c].cursor = "closed" THEN 1 ELSE 0
        /\ iter[c].pc = "yield" => iter[c].cursor = "open" /\ iter[c].closes = 0
        /\ iter[c].abandoned => iter[c].pc \in {"yield", "finished"}

\* the body was cancelled at a fetch after it had yielded a row
C10_Witness ==
    \E c \in Conns :
        /\ iter[c].pc = "finished" /\ iter[c].end = "cancelled"
        /\ iter[c].cursor = "closed" /\ iter[c].closes = 1
        /\ last.op = "iterate_next" /\ last.result = "CancelledError" /\ last.sent = <<>>

(* ------------------------------- C11 ---------------------------------- *)
\* the rows of the first n statements of a list
FirstRows(rows, n) == {rows[i] : i \in {j \in DOMAIN rows : j <= n}}

C11_Step ==
    \A c \in Conns, rows \in QueryLists :
        LET p == _connection[c]
            k == Len(last'.sent) IN
        Did("execute_many", c) /\ ~session[p].in_txn /\ last'.opened = 1
          /\ execute_many(c, rows)
            => /\ last'.opened = 1 /\ last'.closed = 1
               /\ k <= Len(rows)
               /\ last'.sent = SubSeq([i \in DOMAIN rows |-> Stmt("INSERT", rows[i])], 1, k)
               /\ session'[p] = NoSession
               /\ IF last'.raised
                  THEN /\ k >= 1
                       /\ last'.result = "DriverError"
                       /\ table' = table \cup FirstRows(rows, k - 1)
                  ELSE /\ k = Len(rows)
                       /\ last'.result = "ok"
                       /\ table' = table \cup FirstRows(rows, k)

\* C11: outside any transaction, an execute_many(queries) call that got its
\* cursor uses that one cursor and hands the driver the statements in list
\* order; when statement k raises, exactly statements 1..k were handed over
\* (none after k), the rows of statements 1..k-1 are in the table and in no
\* transaction's undo log, and the call ends with the driver's error; when
\* none raises, all were handed over and all rows are in the table.
C11_ExecuteManyNotAtomic == [][C11_Step]_vars

\* the second of two statements raised and the first one's row stayed
C11_Witness ==
    /\ last.op = "execute_many" /\ last.raised /\ last.result = "DriverError"
    /\ Len(last.sent) = 2
    /\ last.sent[1].arg # last.sent[2].arg
    /\ last.sent[1].arg \in table /\ last.sent[2].arg \notin table
    /\ session[_connection[last.obj]] = NoSession

(* ------------------------------- C15 ---------------------------------- *)
\* what the cursor reports after the statement s, run on the table tab
ReportedRowId(s) == IF s.kind = "INSERT" THEN s.arg ELSE 0

ReportedCount(s, tab) ==
    IF s.kind = "INSERT" THEN 1
    ELSE Cardinality({r \in tab : s.arg \in {0, r}})

C15_Step ==
    \A c \in Conns :
        Did("execute", c) /\ last'.result = "ok"
            => LET s == last'.sent[1]
                   rowid == ReportedRowId(s)
                   count == ReportedCount(s, table) IN
               /\ Len(last'.sent) = 1
               /\ rowid # 0 => last'.value = {rowid}
               /\ rowid = 0 => last'.value = {count}

\* C15: an execute() that returns gives back the identifier the cursor
\* reports for the inserted row when that identifier is not zero, and the
\* number of affected rows the cursor reports when it is zero.
C15_ExecuteReturnValue == [][C15_Step]_vars

\* an UPDATE that matched two rows returned the row count 2
C15_Witness ==
    /\ last.op = "execute" /\ last.result = "ok"
    /\ last.sent = <<Stmt("UPDATE", 0)>>
    /\ Cardinality(table) = 2 /\ last.value = {2}

(* ------------------------------- C12 ---------------------------------- *)
ConnectionOps == {"fetch_all", "fetch_one", "execute", "execute_many", "raw_connection"}

TransactionOps == {"start", "commit", "rollback"}

\* the step is a call of an operation on a Connection that is not bound;
\* for iterate the call is the first request for a row, which runs the
\* generator's body from its top
UnboundCall ==
    /\ last' # last
    /\ \/ last'.op \in ConnectionOps /\ _connection[last'.obj] = NoConn
       \/ /\ last'.op = "iterate_next"
          /\ iter[last'.obj].pc = "created"
          /\ _connection[last'.obj] = NoConn
       \/ last'.op \in TransactionOps /\ _connection[TxConn(last'.obj)] = NoConn

C12_Step ==
    UnboundCall =>
        /\ last'.result = "AssertionError"
        /\ last'.opened = 0 /\ last'.sent = <<>>
        /\ session' = session /\ table' = table
        /\ _connection' = _connection /\ pools' = pools

\* C12: fetch_all, fetch_one, execute, execute_many, raw_connection, the
\* body of iterate, and Transaction.start / commit / rollback raise
\* AssertionError when the Connection is not bound (never acquired, or
\* released), and such a call opens no cursor, hands nothing to the driver
\* and changes neither a session, the table, a binding nor the pool.
C12_UnboundConnectionRejected == [][C12_Step]_vars

\* a Transaction was started, its Connection released, and its commit()
\* was then refused
C12_Witness ==
    /\ last.op = "commit" /\ last.result = "AssertionError"
    /\ txState[last.obj] = "started"
    /\ _connection[TxConn(last.obj)] = NoConn
    /\ \E p \in PhysConns : session[p].in_txn /\ p \notin Lent

(* ------------------------------- C13 ---------------------------------- *)
\* start() has been called on the Transaction and got past its assert
StartCalled(x) == _is_root[x] \/ _savepoint_name[x] # 0

\* the one statement of a nested call, or none when cursor() raised
OneOnCursor(s) ==
    /\ last'.opened = 1 => last'.sent = <<s>>
    /\ last'.opened = 0 => last'.sent = <<>> /\ last'.raised

C13_Step ==
    \A x \in Txs :
        /\ Did("start", x) /\ last'.result # "AssertionError" =>
              /\ _is_root'[x] = (last'.note = "root")
              /\ last'.note = "root" => last'.sent = <<Stmt("BEGIN", 0)>>
              /\ last'.note = "nested" =>
                    /\ _savepoint_name'[x] # 0
                    /\ \A y \in Txs : _savepoint_name[y] # _savepoint_name'[x]
                    /\ OneOnCursor(Stmt("SAVEPOINT", _savepoint_name'[x]))
        /\ Did("commit", x) /\ StartCalled(x) /\ last'.result # "AssertionError" =>
              IF _is_root[x] THEN last'.sent = <<Stmt("COMMIT", 0)>>
              ELSE OneOnCursor(Stmt("RELEASE SAVEPOINT", _savepoint_name[x]))
        /\ Did("rollback", x) /\ StartCalled(x) /\ last'.result # "AssertionError" =>
              IF _is_root[x] THEN last'.sent = <<Stmt("ROLLBACK", 0)>>
              ELSE OneOnCursor(Stmt("ROLLBACK TO SAVEPOINT", _savepoint_name[x]))
        /\ _is_root'[x] # _is_root[x] \/ _savepoint_name'[x] # _savepoint_name[x] =>
              last'.op = "start" /\ last'.obj = x

C13_State ==
    \A x, y \in Txs :
        x # y /\ _savepoint_name[x] # 0 => _savepoint_name[x] # _savepoint_name[y]

\* C13: a call on a Transaction whose start() was given is_root hands the
\* driver one statement (none only when the cursor of a nested call could
\* not be opened): start BEGIN if is_root and SAVEPOINT <name> otherwise,
\* with a name no Transaction has had; commit COMMIT or RELEASE SAVEPOINT
\* <name>, rollback ROLLBACK or ROLLBACK TO SAVEPOINT <name>, by the is_root
\* its start() was given and with the name its start() drew; only start()
\* changes either, and no two Transactions have the same name.
C13_OneStatementByIsRoot == [][C13_Step]_vars /\ []C13_State

\* the second nested Transaction rolled back to its own savepoint name
C13_Witness ==
    /\ last.op = "rollback" /\ last.opened = 1
    /\ last.sent = <<Stmt("ROLLBACK TO SAVEPOINT", _savepoint_name[last.obj])>>
    /\ \E y \in Txs : /\ y # last.obj /\ ~_is_root[y]
                      /\ _savepoint_name[y] # 0
                      /\ _savepoint_name[y] < _savepoint_name[last.obj]

(* ------------------------------- C14 ---------------------------------- *)
\* Connections that hold a borrowed physical connection
BoundConns == {c \in Conns : _connection[c] # NoConn}

\* a disconnect() is suspended in wait_closed on the pool that lent p
Draining(p) == \E t \in Tasks : taskpc[t] = "wait_closed" /\ taskref[t] = p[1]

C14_Step ==
    /\ \A t \in Tasks :
          Did("disconnect", t) /\ last'.result = "pending" =>
              pools'[_pool].status \in {"closing", "closed"}
    /\ Ended("disconnect", "ok") =>
          /\ _pool' = None
          /\ Lent = {} /\ Lent' = {}
          /\ BoundConns = {} /\ BoundConns' = {}
    /\ \A c \in Conns :
          /\ Did("release", c) /\ last'.result = "pending" /\ Draining(_connection[c])
               => connref'[c] = _connection[c][1]
          /\ Did("release", c) /\ last'.result \notin {"pending", "AssertionError"}
             /\ Draining(_connection[c]) /\ connref[c] = _connection[c][1]
               => last'.result = "ok" /\ _connection'[c] = NoConn

\* C14: disconnect() closes the pool before it waits; it returns, and the
\* Backend has no pool again, only when no pool counts a physical connection
\* as lent and no Connection is bound; and while a disconnect() waits on
\* the pool that lent a Connection its connection, a release() of that
\* Connection goes to that pool and succeeds.
C14_DisconnectWaitsForBorrowed == [][C14_Step]_vars

(* ---------------- C16: merging of the pool options ------------------- *)
\* the names a driver setting is given under
Names(setting) ==
    CASE setting = "minsize" -> {"min_size", "minsize"}
      [] setting = "maxsize" -> {"max_size", "maxsize"}
      [] OTHER -> {setting}

DriverSettings == {"minsize", "maxsize", "ssl"}

CtorSupplies(setting) == \E i \in DOMAIN _options : _options[i][1] \in Names(setting)

\* the value the constructor gave last for the setting
CtorValue(setting) ==
    LET i == CHOOSE i \in DOMAIN _options :
                 /\ _options[i][1] \in Names(setting)
                 /\ \A j \in (i + 1)..Len(_options) : _options[j][1] \notin Names(setting) IN
    _options[i][2]

UrlSupplies(name) == get(_database_config.options, name) # ""

\* connect() got past its assertion and built the pool's keyword arguments
ConnectBuiltKwargs ==
    \E t \in Tasks : taskpc[t] = "idle" /\ taskpc'[t] = "create_pool"

\* a constructor option overrides whatever the connection string says
CtorOverrides(kw) ==
    \A s \in DriverSettings :
        CtorSupplies(s) => s \in DOMAIN kw /\ kw[s] = CtorValue(s)

\* the sizes never reach the driver under the library's names
DriverKeysOnly(kw) == DOMAIN kw \cap {"min_size", "max_size"} = {}

\* the claim as written: either name, from either source, sets the size
C16_Original_Step ==
    ConnectBuiltKwargs =>
        /\ CtorOverrides(kwargs')
        /\ DriverKeysOnly(kwargs')
        /\ \A s \in {"minsize", "maxsize"} :
               (~CtorSupplies(s) /\ \E n \in Names(s) : UrlSupplies(n)) =>
                   /\ s \in DOMAIN kwargs'
                   /\ kwargs'[s] \in {int(get(_database_config.options, n)) :
                                         n \in {m \in Names(s) : UrlSupplies(m)}}

C16_EitherNameFromEitherSource == [][C16_Original_Step]_vars

\* the library's name of a size setting: the one the connection string is
\* read for
UrlName(setting) == IF setting = "minsize" THEN "min_size" ELSE "max_size"

C16_Step ==
    ConnectBuiltKwargs =>
        /\ CtorOverrides(kwargs')
        /\ DriverKeysOnly(kwargs')
        /\ \A s \in {"minsize", "maxsize"} :
               ~CtorSupplies(s) =>
                   IF UrlSupplies(UrlName(s))
                   THEN /\ s \in DOMAIN kwargs'
                        /\ kwargs'[s] = int(get(_database_config.options, UrlName(s)))
                   ELSE s \notin DOMAIN kwargs'
        /\ ~CtorSupplies("ssl") =>
               IF UrlSupplies("ssl")
               THEN /\ "ssl" \in DOMAIN kwargs'
                    /\ kwargs'["ssl"] = (get(_database_config.options, "ssl") = "true")
               ELSE "ssl" \notin DOMAIN kwargs'

\* C16: when connect() builds the pool's keyword arguments, a constructor
\* option always overrides the connection string's value for the same
\* setting; the constructor's sizes are accepted as min_size or minsize,
\* max_size or maxsize, the connection string's only as min_size and
\* max_size (a minsize or maxsize written there is ignored), and a size always
\* reaches the driver under minsize or maxsize.
C16_OptionsMerged == [][C16_Step]_vars

\* the pool was created with a size the constructor gave as min_size over
\* the connection string's min_size
C16_Witness ==
    /\ _pool # None
    /\ UrlSupplies("min_size")
    /\ \E i \in DOMAIN _options : _options[i][1] = "min_size"
    /\ ~\E i \in DOMAIN _options : _options[i][1] = "minsize"
    /\ "minsize" \in DOMAIN kwargs
    /\ kwargs["minsize"] = CtorValue("minsize")
    /\ kwargs["minsize"] # int(get(_database_config.options, "min_size"))

(* ------------- C17: display and serialization of a Config ------------- *)
\* where the connection string s holds its password, 0 when it has none:
\* the word before the @ that ends the credentials, when a : precedes it
PasswordAt(s) ==
    LET c == Find(s, ":")
        after == SubSeq(s, c + 3, Len(s))
        sl == Find(after, "/")
        at == FindLast(SubSeq(after, 1, sl - 1), "@") IN
    IF at >= 3 /\ after[at - 2] = ":" THEN c + 2 + at - 1 ELSE 0

\* the connection string with the placeholder where its password is
Masked(s) ==
    IF PasswordAt(s) = 0 THEN s ELSE [s EXCEPT ![PasswordAt(s)] = Placeholder]

\* C17: the display form of a parsed Config is the connection string with the
\* password replaced by ******** (unchanged when there is no password); the
\* serialization of a parsed Config is the connection string itself,
\* password included, and parsing the serialization gives the same fields.
C17_MaskedReprExactRoundTrip ==
    /\ last.op = "repr" => last.value = {<<"DatabaseConfig('">> \o Masked(url) \o <<"')">>}
    /\ last.op = "to_url" => last.value = {url}
    /\ to_url(from_url(url)) = url
    /\ from_url(to_url(_database_config)) = _database_config
    /\ PasswordAt(url) # 0 => _database_config.password = url[PasswordAt(url)]

\* repr() was called on a Config whose connection string embeds a password
C17_Witness ==
    /\ last.op = "repr"
    /\ _database_config.password = "password"
    /\ \E r \in last.value : \E i \in DOMAIN r : r[i] = Placeholder

(* ------------------------ C18: Config.replace -------------------------- *)
Fields == {"dialect", "driver", "username", "password", "hostname", "port", "database", "options"}

\* the components of a connection string: scheme, credentials, host and
\* port, path, query
Components(s) ==
    LET c == Find(s, ":")
        rest == SubSeq(s, c + 3, Len(s))
        q == Find(rest, "?")
        hier == IF q = 0 THEN rest ELSE SubSeq(rest, 1, q - 1)
        sl == Find(hier, "/")
        netloc == SubSeq(hier, 1, sl - 1)
        at == FindLast(netloc, "@") IN
    [scheme |-> SubSeq(s, 1, c - 1),
     userinfo |-> SubSeq(netloc, 1, at - 1),
     hostport |-> SubSeq(netloc, at + 1, Len(netloc)),
     path |-> SubSeq(hier, sl, Len(hier)),
     query |-> IF q = 0 THEN <<>> ELSE SubSeq(rest, q + 1, Len(rest))]

\* the component a field is written in
ComponentOf(field) ==
    CASE field \in {"dialect", "driver"} -> "scheme"
      [] field \in {"username", "password"} -> "userinfo"
      [] field \in {"hostname", "port"} -> "hostport"
      [] field = "database" -> "path"
      [] field = "options" -> "query"

\* the slashes a path begins with
RECURSIVE LeadingSlashes(_)
LeadingSlashes(p) ==
    IF p # <<>> /\ Head(p) = "/" THEN 1 + LeadingSlashes(Tail(p)) ELSE 0

ReplacedField == last.note

\* C18: replace(field=value) returns a Config whose named field has the new
\* value and whose other fields equal the original's; the original is as
\* parsed; the result's serialization parses back to the result and differs
\* from the original connection string only in the component that field is
\* written in, and a replaced database is written after one slash, so that a
\* relative path keeps one leading slash and an absolute path two.
C18_ReplaceChangesOneField ==
    last.op = "replace" =>
        /\ \A v \in last.value : new[ReplacedField] = v
        /\ \A g \in Fields \ {ReplacedField} : new[g] = _database_config[g]
        /\ _database_config = from_url(url)
        /\ from_url(to_url(new)) = new
        /\ \A k \in {"scheme", "userinfo", "hostport", "path", "query"} \ {ComponentOf(ReplacedField)} :
               Components(to_url(new))[k] = Components(url)[k]
        /\ ReplacedField = "database" =>
               /\ Components(to_url(new)).path = <<"/">> \o new.database
               /\ LeadingSlashes(new.database) = LeadingSlashes(_database_config.database) =>
                      LeadingSlashes(Components(to_url(new)).path)
                          = LeadingSlashes(Components(url).path)

\* the database of a file-based engine's absolute path was replaced by
\* another absolute path
C18_Witness ==
    /\ last.op = "replace"
    /\ ReplacedField = "database"
    /\ _database_config.dialect = "sqlite"
    /\ LeadingSlashes(Components(url).path) = 2
    /\ new.database = <<"/", "absolute", "/", "path_test">>
    /\ to_url(new)[1] = "sqlite"
    /\ _database_config.options # <<>>

(* -------------- C19: the binding and the pool's count ------------------ *)
\* C19: in every state a Connection is bound if and only if the pool counts
\* exactly one physical connection as lent to it: a bound Connection's
\* physical connection is lent, no two Connections are bound to the same
\* one, and the pools count nothing as lent beyond the bound ones.
C19_BoundIffLent ==
    /\ \A c \in Conns : _connection[c] # NoConn => \E q \in PoolIds : PoolLent(q, _connection[c])
    /\ \A c, d \in Conns : c # d /\ _connection[c] # NoConn => _connection[c] # _connection[d]
    /\ Cardinality(UNION {pools[q].used : q \in PoolIds})
           = Cardinality({c \in Conns : _connection[c] # NoConn})


\* the first half of the claim: a failed or cancelled Pool.acquire leaves the
\* Connection unbound, a failed or cancelled Pool.release leaves it bound to
\* the same physical connection
C19_Step ==
    \A c \in Conns :
        /\ _connection'[c] # _connection[c] =>
               last'.obj = c /\ last'.result = "ok" /\ last'.op \in {"acquire", "release"}
        /\ (connpc[c] = "acquire" /\ connpc'[c] = "idle" /\ last'.result # "ok")
               => _connection'[c] = NoConn
        /\ (connpc[c] = "release" /\ connpc'[c] = "idle" /\ last'.result # "ok")
               => _connection'[c] = _connection[c] /\ _connection[c] # NoConn

C19_BindingChangesOnSuccess == [][C19_Step]_vars

(* ------- C20: a Transaction and the physical connection it began on ---- *)
\* commit() or rollback() of Transaction x sent its statement
Finishing(x) ==
    /\ last' # last
    /\ last'.op \in {"commit", "rollback"}
    /\ last'.obj = x
    /\ last'.sent # <<>>

\* release() of Connection c returned its physical connection to the pool
Returned(c) ==
    /\ connpc[c] = "release"
    /\ connpc'[c] = "idle"
    /\ last'.op = "release"
    /\ last'.result = "ok"

C20_Step ==
    /\ \A x \in Txs :
           (txState[x] = "started" /\ Finishing(x))
               => _connection[TxConn(x)] = startedOn[x]
    /\ \A c \in Conns :
           Returned(c) =>
               ~\E x \in Txs : txState[x] = "started" /\ startedOn[x] = _connection[c]

\* C20: commit() or rollback() of a started Transaction is issued on the
\* physical connection its start() was issued on, whatever acquire() and
\* release() calls came between, and release() returns no physical connection
\* on which a started Transaction is neither committed nor rolled back.
C20_SameConnectionUntilFinished == [][C20_Step]_vars

====
